---- MODULE Spec2Model ----
(***************************************************************************)
(* Guillotine-cut dynamic programme for the Maximum Independent Set of     *)
(* Rectangles (src/Guillotine_Cut_MISR.cpp).  The program is main(): it    *)
(* reads n and n rectangles from stdin, compresses the coordinates, runs   *)
(* the memoised recursion solve on the bounding window, walks the memo     *)
(* with recon and prints the selection.  The two recursive lambdas are     *)
(* modelled with an explicit call stack, one frame per active call.        *)
(***************************************************************************)
EXTENDS Integers, Sequences, FiniteSets, TLC

VARIABLES
    pc,      \* position of main()
    inp,     \* contents of stdin: a sequence of tokens
    n,       \* int n (line 34)
    R,       \* vector<Rect> R, ids 0..n-1 (line 40)
    xs, ys,  \* compressed axes (lines 53-57)
    RIv,     \* grid rectangles (lines 60-67)
    memo,    \* unordered_map<Key,Answer> memo (line 83)
    stack,   \* active calls of solve / recon, innermost last
    ret,     \* value returned by the solve call that returned last
    ans,     \* Answer ans (line 124)
    chosen,  \* vector<int> chosen (line 127)
    out,     \* what has been written to cout
    err,     \* what has been written to cerr
    exit,    \* exit status of main(), -1 while running
    writes   \* history: number of stores into memo per key

vars == <<pc, inp, n, R, xs, ys, RIv, memo, stack, ret, ans, chosen, out, err, exit, writes>>

(***************************************************************************)
(* Bounds of the model.                                                    *)
(***************************************************************************)
MaxN == 2
MaxCoord == 3

(***************************************************************************)
(* Data types (lines 12-19).                                               *)
(***************************************************************************)
Rect(xl, yb, xr, yt) == [xl |-> xl, yb |-> yb, xr |-> xr, yt |-> yt]
Choice(type, param) == [type |-> type, param |-> param]
Answer(val, ch) == [val |-> val, ch |-> ch]
Answer0 == Answer(0, Choice(0, -1))
Key(xi, xj, yk, yl) == <<xi, xj, yk, yl>>

(***************************************************************************)
(* Tokens of the input stream: a token either parses as an integer or      *)
(* makes the extraction cin >> v fail.                                     *)
(***************************************************************************)
Num(v) == [num |-> TRUE, v |-> v]
Word == [num |-> FALSE, v |-> 0]

\* cin >> v succeeds at position p of stream s
CanRead(s, p) == p <= Len(s) /\ s[p].num

\* The value cin >> v leaves in v at position p: the number read, 0 after a
\* failed extraction (v is 0 before: vector<Rect> R(n) is value-initialised).
Field(s, p, okBefore) == IF okBefore /\ CanRead(s, p) THEN s[p].v ELSE 0

\* Line 46: the bounds of a record are in order.
ValidBoundsLax(r) == r.xl <= r.xr /\ r.yb <= r.yt
ValidBounds(r) == r.xl < r.xr /\ r.yb < r.yt

\* Lines 41-50: the reading loop from record i on, the next token at position p.
RECURSIVE ReadRecords(_, _, _, _, _)
ReadRecords(s, p, i, cnt, acc) ==
    IF i >= cnt THEN [ok |-> TRUE, R |-> acc, msg |-> <<>>]
    ELSE LET ok1 == CanRead(s, p)
             ok2 == ok1 /\ CanRead(s, p + 1)
             ok3 == ok2 /\ CanRead(s, p + 2)
             ok4 == ok3 /\ CanRead(s, p + 3)
             r == Rect(Field(s, p, TRUE), Field(s, p + 1, ok1),
                       Field(s, p + 2, ok2), Field(s, p + 3, ok3))
             now == [acc EXCEPT ![i] = r]
         IN  IF ~ok4
             THEN [ok |-> FALSE, R |-> now, msg |-> <<"line", i + 2>>]
             ELSE IF ~ValidBounds(r)
             THEN [ok |-> FALSE, R |-> now, msg |-> <<"rectangle", i>>]
             ELSE ReadRecords(s, p + 4, i + 1, cnt, now)

\* Lines 34-50.
ReadAll(s) ==
    IF ~CanRead(s, 1) \/ s[1].v <= 0
    THEN [ok |-> FALSE, R |-> <<>>, msg |-> <<"n">>]
    ELSE ReadRecords(s, 2, 0, s[1].v, [i \in 0 .. (s[1].v - 1) |-> Rect(0, 0, 0, 0)])

(***************************************************************************)
(* Coordinate compression (lines 52-67).                                   *)
(***************************************************************************)
Min(S) == CHOOSE m \in S : \A k \in S : m <= k

\* sort + erase(unique): the values of S in ascending order (lines 56-57)
RECURSIVE SortUnique(_)
SortUnique(S) == IF S = {} THEN <<>> ELSE <<Min(S)>> \o SortUnique(S \ {Min(S)})

\* lower_bound(a.begin(), a.end(), v) - a.begin(): the first index (from 0)
\* whose entry is >= v, Len(a) when there is none (lines 63-66)
RECURSIVE LowerBoundFrom(_, _, _)
LowerBoundFrom(a, v, i) ==
    IF i >= Len(a) \/ a[i + 1] >= v THEN i ELSE LowerBoundFrom(a, v, i + 1)
LowerBound(a, v) == LowerBoundFrom(a, v, 0)

Ids == 0 .. (n - 1)
X == Len(xs)
Y == Len(ys)

\* struct RI (line 60) filled for rectangle r (lines 63-66)
Index(axx, axy, r) ==
    [xl |-> LowerBound(axx, r.xl), xr |-> LowerBound(axx, r.xr),
     yb |-> LowerBound(axy, r.yb), yt |-> LowerBound(axy, r.yt)]

(***************************************************************************)
(* The lambdas of lines 69-81.                                             *)
(***************************************************************************)
exactMatchNoTop(rid, xi, xj, yk, yl) ==
    LET q == RIv[rid] IN q.xl = xi /\ q.xr = xj /\ q.yb = yk
exactMatch(rid, xi, xj, yk, yl) ==
    LET q == RIv[rid] IN q.xl = xi /\ q.xr = xj /\ q.yb = yk /\ q.yt = yl

windowHasFirstRect(xi, xj, yk, yl) ==
    \E rid \in Ids \cap {0} :
        LET q == RIv[rid] IN q.xl >= xi /\ q.xr <= xj /\ q.yb >= yk /\ q.yt <= yl
windowNeverEmpty(xi, xj, yk, yl) == TRUE
windowHasAnyRect(xi, xj, yk, yl) ==
    \E rid \in Ids :
        LET q == RIv[rid] IN q.xl >= xi /\ q.xr <= xj /\ q.yb >= yk /\ q.yt <= yl

(***************************************************************************)
(* solve (lines 85-121), one frame per active call.                        *)
(***************************************************************************)
Frame(xi, xj, yk, yl) ==
    [xi |-> xi, xj |-> xj, yk |-> yk, yl |-> yl,
     ph |-> "enter", c |-> 0, best |-> Answer0, L |-> Answer0]

Top == stack[Len(stack)]
Pop == SubSeq(stack, 1, Len(stack) - 1)
SetTop(f) == [stack EXCEPT ![Len(stack)] = f]
Call(f, g) == Append(SetTop(f), g)

\* Lines 94-102: the leaf option, the first rectangle that matches the window.
RECURSIVE LeafFrom(_, _, _, _, _)
LeafFrom(rid, xi, xj, yk, yl) ==
    IF rid >= n THEN Answer0
    ELSE IF exactMatch(rid, xi, xj, yk, yl) THEN Answer(1, Choice(1, rid))
    ELSE LeafFrom(rid + 1, xi, xj, yk, yl)
LeafOption(xi, xj, yk, yl) == LeafFrom(0, xi, xj, yk, yl)

\* Lines 108 and 116: the value of a cut is the sum of its two parts.
CombineMax(a, b) == IF a.val >= b.val THEN a.val ELSE b.val
Combine(a, b) == a.val + b.val

\* Lines 109 and 117: a cut replaces the best only when strictly better.
ImproveOrEqual(best, v, type, c) ==
    IF v >= best.val THEN Answer(v, Choice(type, c)) ELSE best
ImproveAdding(best, v, type, c) ==
    IF v > 0 THEN Answer(best.val + v, Choice(type, c)) ELSE best
Improve(best, v, type, c) ==
    IF v > best.val THEN Answer(v, Choice(type, c)) ELSE best

\* memo[key] = a (lines 92 and 120)
StoreUnlessEmpty(m, key, a) == IF a.val = 0 THEN m ELSE (key :> a) @@ m
Store(m, key, a) == (key :> a) @@ m
Count(w, key) == (key :> (IF key \in DOMAIN w THEN w[key] + 1 ELSE 1)) @@ w

\* memo.find(key) != memo.end() (lines 89 and 129)
NeverFound(m, key) == FALSE
Found(m, key) == key \in DOMAIN m

(***************************************************************************)
(* main() up to the first call of solve.                                   *)
(***************************************************************************)
\* Lines 34-50: read n and the n records; a failure writes to cerr and returns 1.
ReadInput ==
    /\ pc = "read"
    /\ LET got == ReadAll(inp)
       IN  IF got.ok
           THEN /\ n' = inp[1].v
                /\ R' = got.R
                /\ pc' = "compress"
                /\ UNCHANGED <<err, exit>>
           ELSE /\ n' = IF CanRead(inp, 1) THEN inp[1].v ELSE n
                /\ R' = got.R
                /\ err' = got.msg
                /\ exit' = 1
                /\ pc' = "error"
    /\ UNCHANGED <<inp, xs, ys, RIv, memo, stack, ret, ans, chosen, out, writes>>

\* Lines 52-67.
Compress ==
    /\ pc = "compress"
    /\ xs' = SortUnique({R[i].xl : i \in Ids} \cup {R[i].xr : i \in Ids})
    /\ ys' = SortUnique({R[i].yb : i \in Ids} \cup {R[i].yt : i \in Ids})
    /\ RIv' = [i \in Ids |-> Index(xs', ys', R[i])]
    /\ pc' = "solve"
    /\ UNCHANGED <<inp, n, R, memo, stack, ret, ans, chosen, out, err, exit, writes>>

\* Line 124: the call solve(0, X-1, 0, Y-1).
CallSolve ==
    /\ pc = "solve"
    /\ stack' = <<Frame(0, X - 1, 0, Y - 1)>>
    /\ pc' = "solving"
    /\ UNCHANGED <<inp, n, R, xs, ys, RIv, memo, ret, ans, chosen, out, err, exit, writes>>

(***************************************************************************)
(* The steps of one call of solve.                                         *)
(***************************************************************************)
InSolve(ph) == pc = "solving" /\ stack # <<>> /\ Top.ph = ph

\* Lines 86-102: the base case, the memo lookup, the pruning and the leaf option.
SolveEnter ==
    /\ InSolve("enter")
    /\ LET f == Top
           key == Key(f.xi, f.xj, f.yk, f.yl)
       IN  IF f.xi >= f.xj \/ f.yk >= f.yl
           THEN /\ ret' = Answer0
                /\ stack' = Pop
                /\ UNCHANGED <<memo, writes>>
           ELSE IF Found(memo, key)
           THEN /\ ret' = memo[key]
                /\ stack' = Pop
                /\ UNCHANGED <<memo, writes>>
           ELSE IF ~windowHasAnyRect(f.xi, f.xj, f.yk, f.yl)
           THEN /\ memo' = Store(memo, key, Answer0)
                /\ writes' = Count(writes, key)
                /\ ret' = Answer0
                /\ stack' = Pop
           ELSE /\ stack' = SetTop([f EXCEPT !.best = LeafOption(f.xi, f.xj, f.yk, f.yl),
                                             !.ph = "vloop", !.c = f.xi + 1])
                /\ UNCHANGED <<memo, writes, ret>>
    /\ UNCHANGED <<pc, inp, n, R, xs, ys, RIv, ans, chosen, out, err, exit>>

\* Lines 105-106: the loop test of the vertical cuts and the call for the left part.
VLoop ==
    /\ InSolve("vloop")
    /\ LET f == Top
       IN  IF f.c <= f.xj - 1
           THEN stack' = Call([f EXCEPT !.ph = "vL"], Frame(f.xi, f.c, f.yk, f.yl))
           ELSE stack' = SetTop([f EXCEPT !.ph = "hloop", !.c = f.yk + 1])
    /\ UNCHANGED <<pc, inp, n, R, xs, ys, RIv, memo, ret, ans, chosen, out, err, exit, writes>>

VRightPastCut ==
    /\ InSolve("vL")
    /\ LET f == Top
       IN  stack' = Call([f EXCEPT !.L = ret, !.ph = "vR"], Frame(f.c + 1, f.xj, f.yk, f.yl))
    /\ UNCHANGED <<pc, inp, n, R, xs, ys, RIv, memo, ret, ans, chosen, out, err, exit, writes>>

\* Lines 106-107: L is returned, the call for the right part.
VRight ==
    /\ InSolve("vL")
    /\ LET f == Top
       IN  stack' = Call([f EXCEPT !.L = ret, !.ph = "vR"], Frame(f.c, f.xj, f.yk, f.yl))
    /\ UNCHANGED <<pc, inp, n, R, xs, ys, RIv, memo, ret, ans, chosen, out, err, exit, writes>>

\* Lines 107-109: Rw is returned, the cut is compared with the best; ++c.
VJoin ==
    /\ InSolve("vR")
    /\ LET f == Top
       IN  stack' = SetTop([f EXCEPT !.best = Improve(f.best, Combine(f.L, ret), 2, f.c),
                                     !.ph = "vloop", !.c = f.c + 1])
    /\ UNCHANGED <<pc, inp, n, R, xs, ys, RIv, memo, ret, ans, chosen, out, err, exit, writes>>

\* Lines 113-114: the loop test of the horizontal cuts and the call for the bottom part.
HLoop ==
    /\ InSolve("hloop")
    /\ LET f == Top
       IN  IF f.c <= f.yl - 1
           THEN stack' = Call([f EXCEPT !.ph = "hB"], Frame(f.xi, f.xj, f.yk, f.c))
           ELSE stack' = SetTop([f EXCEPT !.ph = "store"])
    /\ UNCHANGED <<pc, inp, n, R, xs, ys, RIv, memo, ret, ans, chosen, out, err, exit, writes>>

\* Lines 114-115: B is returned, the call for the top part.
HTop ==
    /\ InSolve("hB")
    /\ LET f == Top
       IN  stack' = Call([f EXCEPT !.L = ret, !.ph = "hT"], Frame(f.xi, f.xj, f.c, f.yl))
    /\ UNCHANGED <<pc, inp, n, R, xs, ys, RIv, memo, ret, ans, chosen, out, err, exit, writes>>

\* Lines 115-117: T is returned, the cut is compared with the best; ++c.
HJoin ==
    /\ InSolve("hT")
    /\ LET f == Top
       IN  stack' = SetTop([f EXCEPT !.best = Improve(f.best, Combine(f.L, ret), 3, f.c),
                                     !.ph = "hloop", !.c = f.c + 1])
    /\ UNCHANGED <<pc, inp, n, R, xs, ys, RIv, memo, ret, ans, chosen, out, err, exit, writes>>

\* Line 120: return memo[key] = best.
SolveStore ==
    /\ InSolve("store")
    /\ LET f == Top
           key == Key(f.xi, f.xj, f.yk, f.yl)
       IN  /\ memo' = Store(memo, key, f.best)
           /\ writes' = Count(writes, key)
           /\ ret' = f.best
           /\ stack' = Pop
    /\ UNCHANGED <<pc, inp, n, R, xs, ys, RIv, ans, chosen, out, err, exit>>

\* Line 124: the outermost call has returned, ans is assigned.
SolveReturn ==
    /\ pc = "solving"
    /\ stack = <<>>
    /\ ans' = ret
    /\ pc' = "recon"
    /\ UNCHANGED <<inp, n, R, xs, ys, RIv, memo, stack, ret, chosen, out, err, exit, writes>>

(***************************************************************************)
(* recon (lines 126-137) and the output (lines 139-146).                   *)
(***************************************************************************)
\* Line 137: the call recon(0, X-1, 0, Y-1); chosen is empty (line 127).
CallRecon ==
    /\ pc = "recon"
    /\ stack' = <<Frame(0, X - 1, 0, Y - 1)>>
    /\ chosen' = <<>>
    /\ pc' = "reconning"
    /\ UNCHANGED <<inp, n, R, xs, ys, RIv, memo, ret, ans, out, err, exit, writes>>

InRecon(ph) == pc = "reconning" /\ stack # <<>> /\ Top.ph = ph

\* Lines 129-135: the lookup, then a leaf is appended or the first part is walked.
ReconEnter ==
    /\ InRecon("enter")
    /\ LET f == Top
           key == Key(f.xi, f.xj, f.yk, f.yl)
       IN  IF ~Found(memo, key) \/ memo[key].val = 0
           THEN stack' = Pop /\ chosen' = chosen
           ELSE LET A == memo[key]
                    c == A.ch.param
                IN  IF A.ch.type = 1
                    THEN stack' = Pop /\ chosen' = Append(chosen, c)
                    ELSE IF A.ch.type = 2
                    THEN /\ stack' = Call([f EXCEPT !.ph = "second", !.c = c],
                                          Frame(f.xi, c, f.yk, f.yl))
                         /\ chosen' = chosen
                    ELSE IF A.ch.type = 3
                    THEN /\ stack' = Call([f EXCEPT !.ph = "second", !.c = c],
                                          Frame(f.xi, f.xj, f.yk, c))
                         /\ chosen' = chosen
                    ELSE stack' = Pop /\ chosen' = chosen
    /\ UNCHANGED <<pc, inp, n, R, xs, ys, RIv, memo, ret, ans, out, err, exit, writes>>

ReconSecondSkipped ==
    /\ InRecon("second")
    /\ stack' = Pop
    /\ UNCHANGED <<pc, inp, n, R, xs, ys, RIv, memo, ret, ans, chosen, out, err, exit, writes>>

\* Lines 134-135: the second recursive call of a cut.
ReconSecond ==
    /\ InRecon("second")
    /\ LET f == Top
           A == memo[Key(f.xi, f.xj, f.yk, f.yl)]
       IN  stack' = Call([f EXCEPT !.ph = "exit"],
                         IF A.ch.type = 2 THEN Frame(f.c, f.xj, f.yk, f.yl)
                                          ELSE Frame(f.xi, f.xj, f.c, f.yl))
    /\ UNCHANGED <<pc, inp, n, R, xs, ys, RIv, memo, ret, ans, chosen, out, err, exit, writes>>

\* Lines 134-135: return after the second call.
ReconExit ==
    /\ InRecon("exit")
    /\ stack' = Pop
    /\ UNCHANGED <<pc, inp, n, R, xs, ys, RIv, memo, ret, ans, chosen, out, err, exit, writes>>

\* Line 137: the outermost call of recon has returned.
ReconReturn ==
    /\ pc = "reconning"
    /\ stack = <<>>
    /\ pc' = "print"
    /\ UNCHANGED <<inp, n, R, xs, ys, RIv, memo, stack, ret, ans, chosen, out, err, exit, writes>>

\* Lines 139-146: the count, then one line per chosen rectangle; return 0.
WriteResult ==
    /\ pc = "print"
    /\ out' = <<ans.val>> \o [k \in 1 .. Len(chosen) |-> <<chosen[k], R[chosen[k]]>>]
    /\ exit' = 0
    /\ pc' = "done"
    /\ UNCHANGED <<inp, n, R, xs, ys, RIv, memo, stack, ret, ans, chosen, err, writes>>

Next ==
    \/ ReadInput \/ Compress \/ CallSolve
    \/ SolveEnter \/ VLoop \/ VRight \/ VJoin \/ HLoop \/ HTop \/ HJoin \/ SolveStore
    \/ SolveReturn
    \/ CallRecon \/ ReconEnter \/ ReconSecond \/ ReconExit \/ ReconReturn
    \/ WriteResult

(***************************************************************************)
(* The inputs.  Rectangles have integer coordinates; the families are      *)
(*   - every sequence of at most MaxN rectangles over 0..MaxCoord and of   *)
(*     at most MaxN+1 rectangles over 0..MaxCoord-1,                       *)
(*   - the example of the README,                                          *)
(*   - rows: at most MaxCoord+1 rectangles over 0..MaxCoord+1, each to the *)
(*     right of the one before,                                            *)
(*   - pinwheels: four pairwise disjoint rectangles over 0..MaxCoord that  *)
(*     no line separates,                                                  *)
(* and the streams got from these by cutting the text short or replacing   *)
(* one token.                                                              *)
(***************************************************************************)
RectsOver(xr, yr) ==
    {Rect(q[1], q[2], q[3], q[4]) :
        q \in {t \in xr \X yr \X xr \X yr : t[1] < t[3] /\ t[2] < t[4]}}
ValidRects(m) == RectsOver(0 .. m, 0 .. m)

\* open-set intersection of two rectangles
Overlap(r, q) == r.xl < q.xr /\ q.xl < r.xr /\ r.yb < q.yt /\ q.yb < r.yt

Instances(maxn, rects) == UNION {[1 .. k -> rects] : k \in 1 .. maxn}

General ==
    Instances(MaxN, ValidRects(MaxCoord)) \cup Instances(MaxN + 1, ValidRects(MaxCoord - 1))

Example == <<Rect(0, 0, 2, 2), Rect(1, 1, 3, 3), Rect(0, 2, 2, 4)>>

\* the rows of k rectangles: each starts where the one before ends, or later
RightOf(t, r) == t = <<>> \/ t[Len(t)].xr <= r.xl
RECURSIVE RowsOf(_, _)
RowsOf(k, rects) ==
    IF k = 0 THEN {<<>>}
    ELSE UNION {{Append(t, r) : r \in {q \in rects : RightOf(t, q)}} :
                   t \in RowsOf(k - 1, rects)}
Rows ==
    UNION {RowsOf(k, RectsOver(0 .. (MaxCoord + 1), 0 .. (MaxCoord - 1))) :
              k \in 1 .. (MaxCoord + 1)}

\* a vertical (horizontal) line at c with a rectangle of t on each side and
\* none across it
CleanV(t, c) ==
    /\ \A k \in DOMAIN t : t[k].xr <= c \/ t[k].xl >= c
    /\ \E k \in DOMAIN t : t[k].xr <= c
    /\ \E k \in DOMAIN t : t[k].xl >= c
CleanH(t, c) ==
    /\ \A k \in DOMAIN t : t[k].yt <= c \/ t[k].yb >= c
    /\ \E k \in DOMAIN t : t[k].yt <= c
    /\ \E k \in DOMAIN t : t[k].yb >= c
\* four pairwise disjoint rectangles that no line among `lines` separates
Pinwheel(t, lines) ==
    /\ Cardinality(DOMAIN t) = 4
    /\ \A j, k \in DOMAIN t : j # k => ~Overlap(t[j], t[k])
    /\ \A c \in lines : ~CleanV(t, c) /\ ~CleanH(t, c)

FieldOf(r, k) == IF k = 0 THEN r.xl ELSE IF k = 1 THEN r.yb ELSE IF k = 2 THEN r.xr ELSE r.yt

\* the text "n / xl yb xr yt / ..." of the rectangles rs (a sequence)
Encode(rs) ==
    <<Num(Len(rs))>> \o
    [p \in 1 .. 4 * Len(rs) |-> Num(FieldOf(rs[((p - 1) \div 4) + 1], (p - 1) % 4))]

\* s cut short, s with one token replaced, and both
Malformed(s) ==
    LET replaced == {[s EXCEPT ![p] = Num(v)] : p \in 1 .. Len(s), v \in -1 .. MaxCoord}
    IN  {SubSeq(s, 1, p) : p \in 0 .. (Len(s) - 1)}
        \cup {[s EXCEPT ![p] = Word] : p \in 1 .. Len(s)}
        \cup replaced
        \cup {SubSeq(t, 1, Len(t) - 1) : t \in replaced}

Start ==
    /\ pc = "read"
    /\ n = 0
    /\ R = <<>>
    /\ xs = <<>>
    /\ ys = <<>>
    /\ RIv = <<>>
    /\ memo = <<>>
    /\ stack = <<>>
    /\ ret = Answer0
    /\ ans = Answer0
    /\ chosen = <<>>
    /\ out = <<>>
    /\ err = <<>>
    /\ exit = -1
    /\ writes = <<>>

\* stdin holds a stream of General or a malformed variant of one
GeneralInput == \E rs \in General : inp \in {Encode(rs)} \cup Malformed(Encode(rs))

FamilyInput == \E rs \in {Example} \cup Rows : inp = Encode(rs)

PinwheelInput ==
    \E r1 \in ValidRects(MaxCoord) :
        \E r2 \in ValidRects(MaxCoord) :
            /\ ~Overlap(r1, r2)
            /\ \E r3 \in ValidRects(MaxCoord) :
                /\ ~Overlap(r1, r3) /\ ~Overlap(r2, r3)
                /\ \E r4 \in ValidRects(MaxCoord) :
                    /\ Pinwheel(<<r1, r2, r3, r4>>, 0 .. MaxCoord)
                    /\ inp = Encode(<<r1, r2, r3, r4>>)

Init == Start /\ (GeneralInput \/ FamilyInput \/ PinwheelInput)
Spec == Init /\ [][Next]_vars

(***************************************************************************)
(* Reference notions for the properties.                                   *)
(***************************************************************************)
Max(S) == CHOOSE m \in S : \A k \in S : m >= k
RootKey == Key(0, X - 1, 0, Y - 1)
Done == pc = "done"

\* the integer positions a cut line can take between the rectangles of R
Lines ==
    LET v == UNION {{R[i].xl, R[i].xr, R[i].yb, R[i].yt} : i \in Ids}
    IN  Min(v) .. Max(v)

Independent(S) == \A i, j \in S : i # j => ~Overlap(R[i], R[j])

\* S (a set of ids) can be taken apart down to single rectangles by
\* recursive lines that pass through the interior of no rectangle of S
RECURSIVE Separable(_)
Separable(S) ==
    \/ Cardinality(S) <= 1
    \/ \E c \in Lines :
        LET lo == {i \in S : R[i].xr <= c}
            hi == {i \in S : R[i].xl >= c}
        IN  lo # {} /\ hi # {} /\ lo \cup hi = S /\ Separable(lo) /\ Separable(hi)
    \/ \E c \in Lines :
        LET lo == {i \in S : R[i].yt <= c}
            hi == {i \in S : R[i].yb >= c}
        IN  lo # {} /\ hi # {} /\ lo \cup hi = S /\ Separable(lo) /\ Separable(hi)

\* brute force over all subsets
GuillotineOpt ==
    Max({Cardinality(S) : S \in {T \in SUBSET Ids : Independent(T) /\ Separable(T)}})

\* C1: when the program has finished on a valid instance, the value solve
\* returned for the full bounding window (ans.val, the count printed) is the
\* largest size of a pairwise non-overlapping, guillotine-separable subset of
\* the input rectangles.
C1_GuillotineOptimal == Done => ans.val = GuillotineOpt /\ out[1] = GuillotineOpt

\* a run on four pairwise disjoint rectangles of which only three can be separated
C1_Witness == Done /\ n = 4 /\ Independent(Ids) /\ ans.val = 3

\* C2: after solve and recon on the full window, the number of ids in chosen
\* equals the value stored in the memo for the full bounding window.
C2_ReconCount ==
    pc \in {"print", "done"} =>
        /\ Found(memo, RootKey)
        /\ Len(chosen) = memo[RootKey].val
        /\ ans.val = memo[RootKey].val

\* recon has walked a vertical and a horizontal cut and found three rectangles
C2_Witness ==
    /\ pc = "print" /\ Len(chosen) = 3
    /\ \E k \in DOMAIN memo : memo[k].ch.type = 2 /\ memo[k].val >= 2
    /\ memo[RootKey].ch.type = 3

\* C3: the ids recon produces are distinct indices in 0..n-1 and the
\* rectangles they name do not overlap pairwise (open-set intersection).
C3_ChosenIndependent ==
    pc \in {"print", "done"} =>
        /\ \A k \in DOMAIN chosen : chosen[k] \in Ids
        /\ \A j, k \in DOMAIN chosen : j # k =>
              chosen[j] # chosen[k] /\ ~Overlap(R[chosen[j]], R[chosen[k]])

\* two rectangles that touch are chosen from an input that also holds a
\* duplicate of one of them
C3_Witness ==
    /\ Done /\ n = 3 /\ Len(chosen) = 2
    /\ \E i, j \in Ids : i # j /\ R[i] = R[j]
    /\ R[chosen[1]].xr = R[chosen[2]].xl \/ R[chosen[1]].yt = R[chosen[2]].yb

\* the rectangles read are those of the sequence rs, in its order
Holds(rs) == pc # "error" /\ n = Len(rs) /\ \A i \in Ids : R[i] = rs[i + 1]
ChosenSet == {chosen[k] : k \in DOMAIN chosen}

\* C4: on R0=(0,0,2,2), R1=(1,1,3,3), R2=(0,2,2,4) the value is 2 and
\* reconstruction returns exactly the ids of R0 and R2.
C4_ExampleResult ==
    Done /\ Holds(Example) =>
        /\ ans.val = 2
        /\ Len(chosen) = 2 /\ ChosenSet = {0, 2}
        /\ out = <<2, <<0, Example[1]>>, <<2, Example[3]>>>>

C4_Witness == Done /\ Holds(Example) /\ Len(out) = 3

\* C5 as claimed: on the example the Choice stored for the full bounding
\* window is a horizontal cut at y = 2 (grid row 2).
C5_RootHorizontal ==
    Done /\ Holds(Example) => memo[RootKey].ch = Choice(3, 2)

\* C5 as amended: on the example the Choice stored for the full bounding window
\* is the vertical cut at x = 2 (grid column 2), which is tried before the
\* horizontal cut at y = 2 of equal value; the right part x in [2,3] has value 0,
\* the left part x in [0,2] is split by the horizontal cut at y = 2 into a
\* bottom part resolved to R0 and a top part resolved to R2.
C5_RootVertical ==
    Done /\ Holds(Example) =>
        /\ xs = <<0, 1, 2, 3>> /\ ys = <<0, 1, 2, 3, 4>>
        /\ memo[RootKey] = Answer(2, Choice(2, 2))
        /\ memo[Key(2, 3, 0, 4)] = Answer0
        /\ memo[Key(0, 2, 0, 4)] = Answer(2, Choice(3, 2))
        /\ memo[Key(0, 2, 0, 2)] = Answer(1, Choice(1, 0))
        /\ memo[Key(0, 2, 2, 4)] = Answer(1, Choice(1, 2))
        /\ memo[Key(0, 3, 0, 2)].val + memo[Key(0, 3, 2, 4)].val = 2
        /\ chosen = <<0, 2>>

C5_Witness == Done /\ Holds(Example) /\ memo[RootKey].ch.type = 2 /\ chosen = <<0, 2>>

\* the rectangles of R stand in a row: any two are separated by a vertical line
IsRow == \A i, j \in Ids : i # j => R[i].xr <= R[j].xl \/ R[j].xr <= R[i].xl

\* C6: a row of n rectangles yields the value n, all of them selected; a
\* single rectangle yields 1, and so do (0,0,2,2) and (2,0,4,2) together.
C6_RowTakesAll ==
    /\ Done /\ IsRow => ans.val = n /\ ChosenSet = Ids /\ Len(chosen) = n
    /\ Done /\ n = 1 => ans.val = 1
    /\ Done /\ Holds(<<Rect(0, 0, 2, 2), Rect(2, 0, 4, 2)>>) => ans.val = 2 /\ ChosenSet = {0, 1}

\* a row of four in which two neighbours share an edge
C6_Witness ==
    /\ Done /\ IsRow /\ n = 4 /\ ans.val = 4
    /\ \E i, j \in Ids : R[i].xr = R[j].xl

\* C7: on a pinwheel the value for the full window is less than 4.
C7_PinwheelBelowFour == Done /\ Pinwheel(R, Lines) => ans.val < 4

C7_Witness == Done /\ Pinwheel(R, Lines) /\ ans.val = 3 /\ Len(chosen) = 3

(***************************************************************************)
(* What an invalid input is, read off the text of stdin.                   *)
(***************************************************************************)
Numeric(s, p) == p \in DOMAIN s /\ s[p].num
CountOk(s) == Numeric(s, 1) /\ s[1].v > 0
RecTokens(s, i) == \A p \in (4 * i + 2) .. (4 * i + 5) : Numeric(s, p)
RecOrdered(s, i) == s[4 * i + 2].v < s[4 * i + 4].v /\ s[4 * i + 3].v < s[4 * i + 5].v
RecOk(s, i) == RecTokens(s, i) /\ RecOrdered(s, i)
InputValid(s) == CountOk(s) /\ \A i \in 0 .. (s[1].v - 1) : RecOk(s, i)

\* the first offending item of an invalid input, as the message names it
Offence(s) ==
    IF ~CountOk(s) THEN <<"n">>
    ELSE LET i == Min({k \in 0 .. (s[1].v - 1) : ~RecOk(s, k)})
         IN  IF ~RecTokens(s, i) THEN <<"line", i + 2>> ELSE <<"rectangle", i>>

\* C8: an invalid input (n missing, non-numeric or <= 0; a record with fewer
\* than 4 numeric tokens; a record with xl >= xr or yb >= yt) ends the program
\* with exit status 1 at the first offending item, before the compression and
\* any call of solve: the memo is empty and nothing was written to the output.
\* A valid input never ends so.
C8_InvalidInputFails ==
    pc # "read" =>
        /\ pc = "error" <=> ~InputValid(inp)
        /\ pc = "error" =>
              /\ exit = 1 /\ err = Offence(inp)
              /\ memo = <<>> /\ writes = <<>> /\ out = <<>>
              /\ xs = <<>> /\ ys = <<>> /\ RIv = <<>>
              /\ stack = <<>> /\ chosen = <<>>
        /\ pc # "error" => err = <<>> /\ exit \in {-1, 0}

\* record 0 has its bounds out of order and record 1 lacks a token: the
\* program stops at record 0
C8_Witness ==
    /\ pc = "error" /\ err = <<"rectangle", 0>>
    /\ inp[1].v = 2 /\ ~RecTokens(inp, 1)

(***************************************************************************)
(* The options of a window in the order solve tries them, valued from the  *)
(* memo entries of the parts.                                              *)
(***************************************************************************)
Option(val, ch) == [val |-> val, ch |-> ch]
Options(k) ==
    LET xi == k[1]
        xj == k[2]
        yk == k[3]
        yl == k[4]
        match == {rid \in Ids : RIv[rid] = [xl |-> xi, xr |-> xj, yb |-> yk, yt |-> yl]}
        leaf == IF match = {} THEN <<>> ELSE <<Option(1, Choice(1, Min(match)))>>
        vcuts == [i \in 1 .. (xj - xi - 1) |->
                    Option(memo[<<xi, xi + i, yk, yl>>].val + memo[<<xi + i, xj, yk, yl>>].val,
                           Choice(2, xi + i))]
        hcuts == [i \in 1 .. (yl - yk - 1) |->
                    Option(memo[<<xi, xj, yk, yk + i>>].val + memo[<<xi, xj, yk + i, yl>>].val,
                           Choice(3, yk + i))]
    IN  leaf \o vcuts \o hcuts

ContainsRect(k) ==
    \E rid \in Ids :
        RIv[rid].xl >= k[1] /\ RIv[rid].xr <= k[2] /\ RIv[rid].yb >= k[3] /\ RIv[rid].yt <= k[4]

\* C9: the Choice stored for a window that contains a rectangle is the first
\* option, in the order leaf (lowest id), vertical cuts ascending, horizontal
\* cuts ascending, that attains the largest value among the options.
C9_FirstBestOption ==
    \A k \in DOMAIN memo :
        ContainsRect(k) =>
            LET o == Options(k)
            IN  \E i \in DOMAIN o :
                    /\ memo[k] = Answer(o[i].val, o[i].ch)
                    /\ \A j \in DOMAIN o : o[j].val <= o[i].val
                    /\ \A j \in 1 .. (i - 1) : o[j].val < o[i].val

\* a stored vertical cut that a later horizontal cut equals in value, and a
\* stored leaf of a window that two rectangles coincide with
C9_Witness ==
    /\ \E k \in DOMAIN memo :
          /\ memo[k].ch.type = 2
          /\ \E i \in DOMAIN Options(k) :
                Options(k)[i].ch.type = 3 /\ Options(k)[i].val = memo[k].val
    /\ \E k \in DOMAIN memo :
          /\ memo[k].ch.type = 1
          /\ Cardinality({rid \in Ids : RIv[rid] = RIv[memo[k].ch.param]}) = 2

\* C10: the memo is empty until solve is called and only grows: a step never
\* changes or removes an entry, no key is stored twice, and the steps of recon
\* and of the output leave the memo as it is.
C10_MemoOnlyGrows ==
    [][/\ \A k \in DOMAIN memo : k \in DOMAIN memo' /\ memo'[k] = memo[k]
       /\ DOMAIN writes' = DOMAIN memo'
       /\ \A k \in DOMAIN writes' : writes'[k] = 1
       /\ pc \in {"read", "compress", "solve"} => memo = <<>> /\ memo' = <<>>
       /\ pc \in {"recon", "reconning", "print"} => memo' = memo]_vars

\* solve is called for a window that already has an entry
C10_Witness ==
    /\ InSolve("enter")
    /\ Found(memo, Key(Top.xi, Top.xj, Top.yk, Top.yl))
    /\ Cardinality(DOMAIN memo) >= 4

(***************************************************************************)
(* The program is sequential: whenever a step is possible, it is taken.    *)
(***************************************************************************)
FairSpec == Spec /\ WF_vars(Next)

\* the window of frame g is the window of frame f with one side strictly
\* shorter and the other side unchanged
StrictPart(f, g) ==
    \/ /\ g.yk = f.yk /\ g.yl = f.yl
       /\ f.xi <= g.xi /\ g.xj <= f.xj /\ g.xj - g.xi < f.xj - f.xi
    \/ /\ g.xi = f.xi /\ g.xj = f.xj
       /\ f.yk <= g.yk /\ g.yl <= f.yl /\ g.yl - g.yk < f.yl - f.yk

NonDegenerate(f) == f.xi < f.xj /\ f.yk < f.yl

\* the active calls of solve are nested strict parts, at most X + Y deep
SolveNesting ==
    pc = "solving" =>
        /\ Len(stack) <= X + Y
        /\ \A i \in DOMAIN stack : NonDegenerate(stack[i])
        /\ \A i \in 2 .. Len(stack) : StrictPart(stack[i - 1], stack[i])

\* C11: the call solve(0, X-1, 0, Y-1) returns; every recursive call is on a
\* non-degenerate window that is a strict part of the caller's window (one
\* side strictly shorter, the other unchanged), and the calls of solve are
\* never nested deeper than X + Y.
C11_SolveTerminates ==
    /\ []SolveNesting
    /\ (pc = "solve") ~> (pc = "recon")

\* the calls are nested as deep as the grid of a full window allows, and the
\* outermost call has a right part of a vertical cut below it
C11_Witness ==
    /\ pc = "solving" /\ Len(stack) = X + Y - 3 /\ Len(stack) >= 5
    /\ stack[1].ph = "vR"

(***************************************************************************)
(* The entries of the memo, as recon reads them (lines 129-135).           *)
(***************************************************************************)
\* the key is a non-degenerate window of the grid
KeyInGrid(k) == 0 <= k[1] /\ k[1] < k[2] /\ k[2] <= X - 1
             /\ 0 <= k[3] /\ k[3] < k[4] /\ k[4] <= Y - 1

\* the entry of k is the sum of the entries of the two parts a and b
SumOfParts(k, a, b) ==
    /\ Found(memo, a) /\ Found(memo, b)
    /\ memo[k].val = memo[a].val + memo[b].val

EntryConsistent(k) ==
    LET A == memo[k]
        c == A.ch.param
    IN  /\ KeyInGrid(k)
        /\ A.ch.type \in 0 .. 3
        /\ A.ch.type = 1 =>
              /\ A.val = 1
              /\ c \in Ids
              /\ RIv[c] = [xl |-> k[1], xr |-> k[2], yb |-> k[3], yt |-> k[4]]
        /\ A.ch.type = 2 =>
              /\ k[1] < c /\ c < k[2]
              /\ SumOfParts(k, Key(k[1], c, k[3], k[4]), Key(c, k[2], k[3], k[4]))
        /\ A.ch.type = 3 =>
              /\ k[3] < c /\ c < k[4]
              /\ SumOfParts(k, Key(k[1], k[2], k[3], c), Key(k[1], k[2], c, k[4]))

\* every window recon is called for has an entry
ReconFindsAll ==
    pc = "reconning" =>
        \A i \in DOMAIN stack :
            Found(memo, Key(stack[i].xi, stack[i].xj, stack[i].yk, stack[i].yl))

\* C12: every memo entry is self-consistent: its key is a non-degenerate window
\* of the grid; a take-rectangle entry has value 1 and its rectangle's grid
\* bounds are the window; a vertical-cut entry cuts strictly inside the window,
\* both parts have entries and its value is the sum of theirs; likewise a
\* horizontal-cut entry. Hence recon never looks up a window without an entry.
C12_MemoSelfConsistent ==
    /\ \A k \in DOMAIN memo : EntryConsistent(k)
    /\ ReconFindsAll

\* recon is three calls deep, below a vertical and a horizontal cut, at a
\* window whose entry takes a rectangle
C12_Witness ==
    /\ InRecon("enter") /\ Len(stack) >= 3
    /\ memo[Key(Top.xi, Top.xj, Top.yk, Top.yl)].ch.type = 1
    /\ \E i, j \in 1 .. (Len(stack) - 1) :
          /\ memo[Key(stack[i].xi, stack[i].xj, stack[i].yk, stack[i].yl)].ch.type = 2
          /\ memo[Key(stack[j].xi, stack[j].xj, stack[j].yk, stack[j].yl)].ch.type = 3
    /\ \E k \in DOMAIN memo : memo[k].ch.type = 0

(***************************************************************************)
(* Empty windows (lines 75-81 and 92).                                     *)
(***************************************************************************)
\* an entry is 0 exactly when its window contains no rectangle, and exactly
\* when its Choice is none
EmptyIffZero ==
    \A k \in DOMAIN memo :
        /\ memo[k].val = 0 <=> ~ContainsRect(k)
        /\ memo[k].val = 0 <=> memo[k].ch = Choice(0, -1)
        /\ ContainsRect(k) => memo[k].val >= 1 /\ memo[k].ch.type \in 1 .. 3

\* a step that stores (0, none) is taken by a call that has made no call
PrunedWithoutCalls ==
    \A k \in DOMAIN memo' \ DOMAIN memo :
        ~ContainsRect(k) =>
            /\ memo'[k] = Answer0
            /\ InSolve("enter")
            /\ Top = Frame(k[1], k[2], k[3], k[4])
            /\ stack' = Pop

\* C13: for every window stored in the memo, the value is 0 if and only if no
\* rectangle's grid bounds are contained in the window, and if and only if the
\* Choice is none; a window that contains a rectangle has value >= 1 and a leaf
\* or cut Choice, and a window pruned as empty is stored as (0, none) by a call
\* of solve that makes no recursive call.
C13_ZeroIffEmpty ==
    /\ []EmptyIffZero
    /\ [][PrunedWithoutCalls]_vars

\* a window that a rectangle crosses without lying inside it has been pruned,
\* and a window that holds two rectangles has a cut of value 2
C13_Witness ==
    /\ \E k \in DOMAIN memo :
          /\ memo[k] = Answer0
          /\ \E rid \in Ids :
                /\ RIv[rid].xl < k[2] /\ k[1] < RIv[rid].xr
                /\ RIv[rid].yb < k[4] /\ k[3] < RIv[rid].yt
    /\ \E k \in DOMAIN memo : memo[k].val = 2 /\ memo[k].ch.type \in {2, 3}

====
